---- MODULE Spec2Model ----
(***************************************************************************)
(* Model of s3xist_scanner.py: the coordinator (main), the worker threads, *)
(* the work queue (queue.Queue), the sink lock and the output file.        *)
(***************************************************************************)
EXTENDS Integers, Sequences, FiniteSets, TLC

(* ---------------------------- bounds ---------------------------------- *)
\* largest --threads value explored (0..MaxThreads)
MaxThreads == 2
\* longest wordlist explored, in lines
MaxLines == 2
\* MaxKeys=10 passed to list_objects_v2
MaxKeys == 10

Workers == 1..MaxThreads

(* ---------------------------- wordlist -------------------------------- *)
\* characters str.strip() removes
Whitespace == {" ", "\t", "\n"}

\* the raw lines a wordlist file may hold, each a sequence of characters
\* (an empty line, a whitespace-only line, a padded bucket name)
RawLines ==
  { <<"\n">>,
    <<" ", "\t", "\n">>,
    <<" ", "a", " ", "\n">> }

RECURSIVE lstrip(_)
lstrip(s) ==
  IF s = <<>> THEN <<>>
  ELSE IF Head(s) \in Whitespace THEN lstrip(Tail(s)) ELSE s

RECURSIVE rstrip(_)
rstrip(s) ==
  IF s = <<>> THEN <<>>
  ELSE IF s[Len(s)] \in Whitespace THEN rstrip(SubSeq(s, 1, Len(s) - 1)) ELSE s

\* line.strip()
strip(s) == rstrip(lstrip(s))

Wordlists == UNION { [1..n -> RawLines] : n \in 0..MaxLines }

(* ---------------------------- queue items ----------------------------- *)
\* the sentinel None; a candidate carries the index of its wordlist line
None == [id |-> 0, name |-> <<>>]
\* a worker's bucket_name before its first q.get() and between items
Unset == [id |-> -1, name |-> <<>>]
Candidate(i, n) == [id |-> i, name |-> n]

(* ---------------------------- remote API ------------------------------ *)
\* outcomes of s3_client.head_bucket
HeadResponses ==
  { [kind |-> "ok", code |-> "-"],
    [kind |-> "ClientError", code |-> "403"],
    [kind |-> "ClientError", code |-> "404"],
    [kind |-> "ClientError", code |-> "500"],
    [kind |-> "ClientError", code |-> "NoCode"],
    [kind |-> "Exception", code |-> "-"] }
NoResponse == [kind |-> "none", code |-> "-"]

\* faulty variant: a 403 is reported as an error instead of an existing bucket
check_bucket_existence_403_error(r) ==
  IF r.kind = "ok" THEN "FOUND"
  ELSE IF r.kind = "ClientError" /\ r.code = "404" THEN "NOT_FOUND"
  ELSE "ERROR"

\* check_bucket_existence: the classification of a head_bucket outcome
check_bucket_existence(r) ==
  IF r.kind = "ok" THEN "FOUND"
  ELSE IF r.kind = "ClientError" THEN
    IF r.code = "403" THEN "FOUND"
    ELSE IF r.code = "404" THEN "NOT_FOUND"
    ELSE "ERROR"
  ELSE "ERROR"

\* number of objects a bucket may hold
BucketSizes == {0, 2}

\* bucket sizes that include one above the MaxKeys asked for
LargeBucketSizes == BucketSizes \cup {MaxKeys + 1}

\* faulty variant: the request carries no MaxKeys and every key comes back
Contents_uncapped(n, m) == [i \in 1..n |-> i]

\* keys returned by list_objects_v2(MaxKeys=m) on a bucket of n objects
Contents(n, m) == [i \in 1..(IF n < m THEN n ELSE m) |-> i]

\* outcomes of s3_client.list_objects_v2 on buckets of the given sizes: a
\* response (with or without 'Contents'), a ClientError, another exception
ListResponses(szs) ==
  { [kind |-> "ok", keys |-> Contents(n, MaxKeys)] : n \in szs }
  \cup { [kind |-> "ClientError:AccessDenied", keys |-> <<>>],
         [kind |-> "ClientError:other", keys |-> <<>>],
         [kind |-> "Exception", keys |-> <<>>] }

\* found_objects values: None is NoList, a list is [some |-> TRUE, keys |-> ..]
NoList == [some |-> FALSE, keys |-> <<>>]
KeyList(ks) == [some |-> TRUE, keys |-> ks]

\* list_bucket_contents: the value returned for a list_objects_v2 outcome
list_bucket_contents(lr) ==
  IF lr.kind = "ok" THEN KeyList(lr.keys) ELSE NoList

(* ---------------------------- sink lines ------------------------------ *)
\* f"Bucket: {bucket_name}\n" ; src is the candidate that wrote it
BucketLine(c) == [kind |-> "Bucket", text |-> c.name, key |-> 0, src |-> c.id]
\* f"  - Object: {obj_key}\n"
ObjectLine(c, k) == [kind |-> "Object", text |-> <<>>, key |-> k, src |-> c.id]

\* what is recorded of a candidate no worker has probed yet
NoResult == [status |-> "-", keys |-> <<>>]

\* a line the output file held before the scan
OldLine == [kind |-> "Old", text |-> <<>>, key |-> 0, src |-> 0]

(* ---------------------------- terminal -------------------------------- *)
\* faulty variant: a candidate that does not exist is reported too
StatusLines_not_found_too(st) ==
  IF st = "FOUND" THEN <<"[+] FOUND">>
  ELSE IF st = "ERROR" THEN <<"[!] ERROR">>
  ELSE <<"[-] NOT FOUND">>

\* the status lines the worker prints for a candidate of status st:
\* print("[+] FOUND: ..."), print("[!] ERROR: ..."), nothing otherwise
StatusLines(st) ==
  IF st = "FOUND" THEN <<"[+] FOUND">>
  ELSE IF st = "ERROR" THEN <<"[!] ERROR">>
  ELSE <<>>

(* ---------------------------- state ----------------------------------- *)
VARIABLES
  N,              \* args.threads
  wordlist,       \* the lines of the file at args.wordlist
  should_list,    \* args.list_objects
  output_file,    \* whether args.output is given
  sizes,          \* the object counts of the buckets the service may answer for
  mpc,            \* the coordinator's position in main
  started,        \* threads started by the spawn loop
  pos,            \* index of the next wordlist line to read
  sent,           \* sentinels put by the finally block
  joined,         \* threads joined by the finally block
  caught,         \* the except clause main ran: "none", "FileNotFoundError", "Exception"
  queue,          \* q: the items of the Queue, oldest first
  unfinished,     \* q.unfinished_tasks
  locked,         \* lock: whether the threading.Lock is held
  file,           \* the lines of the output file
  wpc,            \* each worker's position
  item,           \* each worker's bucket_name
  resp,           \* the head_bucket outcome each worker last saw
  status,         \* each worker's status
  found_objects,  \* each worker's found_objects
  widx,           \* lines each worker has written inside its open file
  puts,           \* history: every item given to q.put, in order
  results,        \* history: per wordlist line, the status and the keys a worker got
  terminal        \* per wordlist line, the status lines printed for its candidate

cfgvars == <<N, wordlist, should_list, output_file, sizes>>
mainvars == <<mpc, started, pos, sent, joined, caught>>
sharedvars == <<queue, unfinished, locked, file>>
workervars == <<wpc, item, resp, status, found_objects, widx>>
histvars == <<puts, results, terminal>>
vars == <<cfgvars, mainvars, sharedvars, workervars, histvars>>

\* the threads main creates: range(args.threads)
Threads == 1..N

\* main before its first statement: no thread, an empty Queue, a free Lock
Fresh ==
  /\ mpc = "spawn"
  /\ started = 0
  /\ pos = 1
  /\ sent = 0
  /\ joined = 0
  /\ caught = "none"
  /\ queue = <<>>
  /\ unfinished = 0
  /\ locked = FALSE
  /\ file = <<OldLine>>
  /\ wpc = [w \in Workers |-> "unstarted"]
  /\ item = [w \in Workers |-> Unset]
  /\ resp = [w \in Workers |-> NoResponse]
  /\ status = [w \in Workers |-> "-"]
  /\ found_objects = [w \in Workers |-> NoList]
  /\ widx = [w \in Workers |-> 0]
  /\ puts = <<>>
  /\ results = [i \in 1..MaxLines |-> NoResult]
  /\ terminal = [i \in 1..MaxLines |-> <<>>]

Init ==
  /\ N \in 0..MaxThreads
  /\ wordlist \in Wordlists
  /\ should_list \in BOOLEAN
  /\ output_file \in BOOLEAN
  /\ sizes = BucketSizes
  /\ Fresh

(* ---------------------------- Queue ----------------------------------- *)
\* q.put(x): append and count the task
put(x) ==
  /\ queue' = Append(queue, x)
  /\ unfinished' = unfinished + 1
  /\ puts' = Append(puts, x)

\* faulty variant: the acknowledgement is lost
task_done_lost == unfinished' = unfinished

\* q.task_done()
task_done == unfinished' = unfinished - 1

\* faulty variant: a join that never waits
join_returns_at_once == TRUE

\* faulty variant: main waits for q.empty() instead of q.join()
join_returns_when_queue_empty == queue = <<>>

\* q.join() returns when every put item has been acknowledged
join_returns == unfinished = 0

(* ---------------------------- main ------------------------------------ *)
\* for _ in range(args.threads): thread.start()
Spawn ==
  /\ mpc = "spawn"
  /\ IF started < N
       THEN /\ started' = started + 1
            /\ wpc' = [wpc EXCEPT ![started + 1] = "init"]
            /\ mpc' = mpc
       ELSE /\ mpc' = "open"
            /\ UNCHANGED <<started, wpc>>
  /\ UNCHANGED <<cfgvars, pos, sent, joined, caught, sharedvars,
                 item, resp, status, found_objects, widx, histvars>>

\* open(args.wordlist, 'r') succeeds
OpenWordlist ==
  /\ mpc = "open"
  /\ mpc' = "read"
  /\ UNCHANGED <<cfgvars, started, pos, sent, joined, caught, sharedvars, workervars,
                 histvars>>

\* open(args.wordlist, 'r') raises: FileNotFoundError or another exception
OpenFails ==
  /\ mpc = "open"
  /\ \E e \in {"FileNotFoundError", "Exception"} : caught' = e
  /\ mpc' = "sentinels"
  /\ UNCHANGED <<cfgvars, started, pos, sent, joined, sharedvars, workervars, histvars>>

\* faulty variant: the "if bucket_name:" test is missing
ReadLine_no_skip ==
  /\ mpc = "read"
  /\ IF pos <= Len(wordlist)
       THEN /\ put(Candidate(pos, strip(wordlist[pos])))
            /\ pos' = pos + 1
            /\ mpc' = mpc
       ELSE /\ mpc' = "join"
            /\ UNCHANGED <<pos, queue, unfinished, puts>>
  /\ UNCHANGED <<cfgvars, started, sent, joined, caught, locked, file, workervars,
                 results, terminal>>

\* one iteration of "for line in f": strip, put the non-empty name;
\* at the end of the file the with block is left and q.join() is next
ReadLine ==
  /\ mpc = "read"
  /\ IF pos <= Len(wordlist)
       THEN /\ LET bucket_name == strip(wordlist[pos])
               IN IF bucket_name # <<>>
                    THEN put(Candidate(pos, bucket_name))
                    ELSE UNCHANGED <<queue, unfinished, puts>>
            /\ pos' = pos + 1
            /\ mpc' = mpc
       ELSE /\ mpc' = "join"
            /\ UNCHANGED <<pos, queue, unfinished, puts>>
  /\ UNCHANGED <<cfgvars, started, sent, joined, caught, locked, file, workervars,
                 results, terminal>>

\* reading the next line raises (a decoding or I/O error): except Exception
ReadFails ==
  /\ mpc = "read"
  /\ pos <= Len(wordlist)
  /\ caught' = "Exception"
  /\ mpc' = "sentinels"
  /\ UNCHANGED <<cfgvars, started, pos, sent, joined, sharedvars, workervars, histvars>>

\* q.join()
Join ==
  /\ mpc = "join"
  /\ join_returns
  /\ mpc' = "sentinels"
  /\ UNCHANGED <<cfgvars, started, pos, sent, joined, caught, sharedvars, workervars,
                 histvars>>

\* number of q.put(None) calls of the finally block
SentinelCount == N

\* finally: for _ in range(args.threads): q.put(None)
PutSentinel ==
  /\ mpc = "sentinels"
  /\ IF sent < SentinelCount
       THEN /\ put(None)
            /\ sent' = sent + 1
            /\ mpc' = mpc
       ELSE /\ mpc' = "jointhreads"
            /\ UNCHANGED <<sent, queue, unfinished, puts>>
  /\ UNCHANGED <<cfgvars, started, pos, joined, caught, locked, file, workervars,
                 results, terminal>>

\* whether a thread has finished (returned or died on an exception)
finished(w) == wpc[w] \in {"done", "crashed"}

\* finally: for thread in threads: thread.join(); then the closing log line
JoinThread ==
  /\ mpc = "jointhreads"
  /\ IF joined < N
       THEN /\ finished(joined + 1)
            /\ joined' = joined + 1
            /\ mpc' = mpc
       ELSE /\ mpc' = "done"
            /\ UNCHANGED joined
  /\ UNCHANGED <<cfgvars, started, pos, sent, caught, sharedvars, workervars, histvars>>

(* ---------------------------- worker ---------------------------------- *)
\* the locals of a thread that is between items, or that has ended
Forget(w) ==
  /\ resp' = [resp EXCEPT ![w] = NoResponse]
  /\ status' = [status EXCEPT ![w] = "-"]
  /\ found_objects' = [found_objects EXCEPT ![w] = NoList]
  /\ widx' = [widx EXCEPT ![w] = 0]

\* boto3.Session(...) and session.client('s3') succeed: enter the loop
CreateClient(w) ==
  /\ wpc[w] = "init"
  /\ wpc' = [wpc EXCEPT ![w] = "get"]
  /\ UNCHANGED <<cfgvars, mainvars, sharedvars, item, resp, status, found_objects, widx,
                 histvars>>

\* boto3.Session(...) or session.client('s3') raises: the thread dies
CreateClientFails(w) ==
  /\ wpc[w] = "init"
  /\ wpc' = [wpc EXCEPT ![w] = "crashed"]
  /\ UNCHANGED <<cfgvars, mainvars, sharedvars, item, resp, status, found_objects, widx,
                 histvars>>

\* bucket_name = q.get(); if bucket_name is None: break
Get(w) ==
  /\ wpc[w] = "get"
  /\ queue # <<>>
  /\ queue' = Tail(queue)
  /\ item' = [item EXCEPT ![w] = Head(queue)]
  /\ wpc' = [wpc EXCEPT ![w] = IF Head(queue) = None THEN "done" ELSE "probe"]
  /\ UNCHANGED <<cfgvars, mainvars, unfinished, locked, file,
                 resp, status, found_objects, widx, histvars>>

\* faulty variant: the "if output_file:" test is missing
AfterList_always_lock == "lock"

\* where the worker goes after the listing step (or when it is skipped)
AfterList == IF output_file THEN "lock" ELSE "ack"

\* where the worker goes once status is known
AfterProbe(st) ==
  IF st = "FOUND"
    THEN IF should_list THEN "list" ELSE AfterList
    ELSE "ack"

\* status = check_bucket_existence(s3_client, bucket_name), the status line
\* printed for it, found_objects = None
Probe(w) ==
  /\ wpc[w] = "probe"
  /\ \E r \in HeadResponses :
       /\ resp' = [resp EXCEPT ![w] = r]
       /\ status' = [status EXCEPT ![w] = check_bucket_existence(r)]
       /\ wpc' = [wpc EXCEPT ![w] = AfterProbe(check_bucket_existence(r))]
  /\ found_objects' = [found_objects EXCEPT ![w] = NoList]
  /\ results' = [results EXCEPT ![item[w].id].status = status'[w]]
  /\ terminal' = [terminal EXCEPT ![item[w].id] = @ \o StatusLines(status'[w])]
  /\ UNCHANGED <<cfgvars, mainvars, sharedvars, item, widx, puts>>

\* found_objects = list_bucket_contents(s3_client, bucket_name)
List(w) ==
  /\ wpc[w] = "list"
  /\ \E lr \in ListResponses(sizes) :
       found_objects' = [found_objects EXCEPT ![w] = list_bucket_contents(lr)]
  /\ wpc' = [wpc EXCEPT ![w] = AfterList]
  /\ resp' = [resp EXCEPT ![w] = NoResponse]
  /\ results' = [results EXCEPT ![item[w].id].keys = found_objects'[w].keys]
  /\ UNCHANGED <<cfgvars, mainvars, sharedvars, item, status, widx, puts, terminal>>

\* faulty variant: the sink block is entered without taking the lock
lock_ignored == TRUE

\* whether "with lock:" may be entered
lock_free == ~locked

\* faulty variant: the file is opened with mode 'w', which empties it
AcquireOpen_write_mode(w) ==
  /\ wpc[w] = "lock"
  /\ lock_free
  /\ locked' = TRUE
  /\ file' = <<>>
  /\ wpc' = [wpc EXCEPT ![w] = "write"]
  /\ widx' = [widx EXCEPT ![w] = 0]
  /\ resp' = [resp EXCEPT ![w] = NoResponse]
  /\ UNCHANGED <<cfgvars, mainvars, queue, unfinished,
                 item, status, found_objects, histvars>>

\* with lock: with open(output_file, 'a') as f: the lock is taken (blocking
\* until it is free) and the file is opened for appending
AcquireOpen(w) ==
  /\ wpc[w] = "lock"
  /\ lock_free
  /\ locked' = TRUE
  /\ wpc' = [wpc EXCEPT ![w] = "write"]
  /\ widx' = [widx EXCEPT ![w] = 0]
  /\ resp' = [resp EXCEPT ![w] = NoResponse]
  /\ UNCHANGED <<cfgvars, mainvars, queue, unfinished, file,
                 item, status, found_objects, histvars>>

\* the lock is taken but open(output_file, 'a') raises: leaving the with
\* lock block releases the lock and the exception ends the thread
AcquireOpenFails(w) ==
  /\ wpc[w] = "lock"
  /\ lock_free
  /\ locked' = FALSE
  /\ wpc' = [wpc EXCEPT ![w] = "crashed"]
  /\ Forget(w)
  /\ UNCHANGED <<cfgvars, mainvars, queue, unfinished, file, item, histvars>>

\* faulty variant: a listing that returned None is written as a key
KeysToWrite_none_as_key(fo) ==
  IF fo.some THEN fo.keys ELSE <<0>>

\* if found_objects: the keys that get an object line
KeysToWrite(fo) == IF fo.some /\ fo.keys # <<>> THEN fo.keys ELSE <<>>

\* faulty variant: the bucket line is written again before every object line
RecordLines_header_in_loop(c, fo) ==
  <<BucketLine(c)>> \o
  [i \in 1..(2 * Len(KeysToWrite(fo))) |->
     IF i % 2 = 1 THEN BucketLine(c) ELSE ObjectLine(c, KeysToWrite(fo)[i \div 2])]

\* the lines the with open(...) block writes for candidate c
RecordLines(c, fo) ==
  <<BucketLine(c)>> \o
  [i \in 1..Len(KeysToWrite(fo)) |-> ObjectLine(c, KeysToWrite(fo)[i])]

\* one f.write(...) of the block, appended to the file
WriteLine(w) ==
  /\ wpc[w] = "write"
  /\ widx[w] < Len(RecordLines(item[w], found_objects[w]))
  /\ file' = Append(file, RecordLines(item[w], found_objects[w])[widx[w] + 1])
  /\ widx' = [widx EXCEPT ![w] = widx[w] + 1]
  /\ UNCHANGED <<cfgvars, mainvars, queue, unfinished, locked,
                 wpc, item, resp, status, found_objects, histvars>>

\* faulty variant: the lock is taken with lock.acquire() and the release is
\* skipped when the write raises
WriteFails_keeps_lock(w) ==
  /\ wpc[w] = "write"
  /\ locked' = locked
  /\ wpc' = [wpc EXCEPT ![w] = "crashed"]
  /\ Forget(w)
  /\ UNCHANGED <<cfgvars, mainvars, queue, unfinished, file, item, histvars>>

\* a write (or the flush on close) raises: the file keeps the lines written
\* so far, the lock is released and the exception ends the thread
WriteFails(w) ==
  /\ wpc[w] = "write"
  /\ locked' = FALSE
  /\ wpc' = [wpc EXCEPT ![w] = "crashed"]
  /\ Forget(w)
  /\ UNCHANGED <<cfgvars, mainvars, queue, unfinished, file, item, histvars>>

\* the block ends: the file is closed and the lock released
CloseSink(w) ==
  /\ wpc[w] = "write"
  /\ widx[w] = Len(RecordLines(item[w], found_objects[w]))
  /\ locked' = FALSE
  /\ wpc' = [wpc EXCEPT ![w] = "ack"]
  /\ UNCHANGED <<cfgvars, mainvars, queue, unfinished, file,
                 item, resp, status, found_objects, widx, histvars>>

\* q.task_done(), back to the top of the loop
Ack(w) ==
  /\ wpc[w] = "ack"
  /\ task_done
  /\ wpc' = [wpc EXCEPT ![w] = "get"]
  /\ item' = [item EXCEPT ![w] = Unset]
  /\ Forget(w)
  /\ UNCHANGED <<cfgvars, mainvars, queue, locked, file, histvars>>

(* ---------------------------- specification --------------------------- *)
\* the coordinator's steps
Main ==
  \/ Spawn
  \/ OpenWordlist
  \/ OpenFails
  \/ ReadLine
  \/ ReadFails
  \/ Join
  \/ PutSentinel
  \/ JoinThread

\* a worker's steps when no call of its own raises
WorkerOK(w) ==
  \/ CreateClient(w)
  \/ Get(w)
  \/ Probe(w)
  \/ List(w)
  \/ AcquireOpen(w)
  \/ WriteLine(w)
  \/ CloseSink(w)
  \/ Ack(w)

\* the steps in which a call of the worker raises and ends the thread
WorkerFails(w) ==
  \/ CreateClientFails(w)
  \/ AcquireOpenFails(w)
  \/ WriteFails(w)

Next ==
  \/ Main
  \/ \E w \in Workers : WorkerOK(w)
  \/ \E w \in Workers : WorkerFails(w)

Spec == Init /\ [][Next]_vars

\* runs with at least one worker in which no call of a worker raises, where
\* the scheduler never leaves every runnable thread waiting for ever
InitLive == Init /\ N >= 1

NextOK ==
  \/ Main
  \/ \E w \in Workers : WorkerOK(w)

Fairness == WF_vars(NextOK)

FairSpec == InitLive /\ [][NextOK]_vars /\ Fairness

\* runs of one worker with listing and an output file, against a service
\* that also holds a bucket of more than MaxKeys objects
CapInit ==
  /\ N = 1
  /\ wordlist \in Wordlists
  /\ should_list = TRUE
  /\ output_file = TRUE
  /\ sizes = LargeBucketSizes
  /\ Fresh

CapSpec == CapInit /\ [][Next]_vars

(* ---------------------------- shared notions -------------------------- *)
\* candidates put and not yet acknowledged (sentinels are never acknowledged)
Outstanding == unfinished - sent

\* the candidates among a sequence of queue items
CandidatesOf(items) == SelectSeq(items, LAMBDA x : x # None)

\* the sentinels among a sequence of queue items
SentinelsOf(items) == SelectSeq(items, LAMBDA x : x = None)

IsPrefix(a, b) == Len(a) <= Len(b) /\ a = SubSeq(b, 1, Len(a))

(* ---------------------------- C1 -------------------------------------- *)
\* C1 as stated: on every path of main, once a sentinel has been enqueued
\* every candidate pushed so far has been acknowledged (so no worker pops a
\* sentinel while a candidate is queued or in another worker's hands).
C1_SentinelsOnlyAfterDrain ==
  sent > 0 => Outstanding = 0

\* C1 amended: when main reaches the finally block through q.join() (no
\* exception caught), or before any wordlist line was read (the open failed),
\* sentinels are enqueued only when no candidate is outstanding; and on every
\* path, the read-error path included, no candidate is ever enqueued behind
\* a sentinel.
C1_SentinelsAfterJoinBarrier ==
  /\ (sent > 0 /\ (caught = "none" \/ pos = 1)) => Outstanding = 0
  /\ \A i, j \in 1..Len(puts) : (puts[i] = None /\ i < j) => puts[j] = None

\* a run through q.join() with candidates, two workers and all sentinels put
C1_Witness ==
  /\ caught = "none"
  /\ N = 2
  /\ sent = 2
  /\ Len(CandidatesOf(puts)) = 2

(* ---------------------------- C2 -------------------------------------- *)
\* positions of the 'Bucket:' lines of the output file
BucketIdx == {i \in 1..Len(file) : file[i].kind = "Bucket"}

\* the last line of the run of 'Object:' lines that follows line i
BlockEnd(i) ==
  LET stops == {j \in (i + 1)..Len(file) : file[j].kind # "Object"}
  IN IF stops = {} THEN Len(file)
     ELSE (CHOOSE j \in stops : \A k \in stops : j <= k) - 1

\* the 'Object:' lines directly beneath the 'Bucket:' line at i
Block(i) == SubSeq(file, i + 1, BlockEnd(i))

\* the '  - Object: <key>' lines candidate id is due: one per listed key
ObjLines(id) ==
  [k \in 1..Len(results[id].keys) |->
     [kind |-> "Object", text |-> <<>>, key |-> results[id].keys[k], src |-> id]]

\* some worker is inside the open-write-close sequence for candidate id
Writing(id) == \E w \in Workers : wpc[w] = "write" /\ item[w].id = id

\* the thread handling candidate id died on an exception
Raised(id) == \E w \in Workers : wpc[w] = "crashed" /\ item[w].id = id

\* at most one worker is inside the open-write-close sequence
SinkMutex == Cardinality({w \in Workers : wpc[w] = "write"}) <= 1

\* every 'Object:' line sits beneath a 'Bucket:' line or another 'Object:' line
NoStrayObjectLine ==
  \A i \in 1..Len(file) :
    file[i].kind = "Object" => (i > 1 /\ file[i - 1].kind \in {"Bucket", "Object"})

\* C2 as stated: sink writes never interleave: at most one worker is inside
\* open-write-close, and once no worker is writing a record, its 'Bucket:'
\* line is followed by exactly the 'Object:' lines of that candidate.
C2_BlocksContiguousAndComplete ==
  /\ SinkMutex
  /\ NoStrayObjectLine
  /\ \A i \in BucketIdx :
       /\ IsPrefix(Block(i), ObjLines(file[i].src))
       /\ ~Writing(file[i].src) => Block(i) = ObjLines(file[i].src)

\* C2 amended: at most one worker is inside open-write-close, and every
\* 'Bucket:' line is followed only by 'Object:' lines of the same candidate,
\* in listing order: all of them once its write has completed, the first
\* few of them while it is being written or when its write raised part-way.
C2_BlocksContiguous ==
  /\ SinkMutex
  /\ NoStrayObjectLine
  /\ \A i \in BucketIdx :
       /\ IsPrefix(Block(i), ObjLines(file[i].src))
       /\ (~Writing(file[i].src) /\ ~Raised(file[i].src))
            => Block(i) = ObjLines(file[i].src)

\* one worker is part-way through a record with object lines while another,
\* also holding a found bucket with objects, waits for the lock
C2_Witness ==
  \E w1, w2 \in Workers :
    /\ w1 # w2
    /\ wpc[w1] = "write" /\ widx[w1] = 2
    /\ wpc[w2] = "lock" /\ found_objects[w2].keys # <<>>

(* ---------------------------- C3 -------------------------------------- *)
\* C3: whatever head_bucket does (success, ClientError 403, 404, another or
\* no code, any other exception) the status is one of FOUND, NOT_FOUND,
\* ERROR: FOUND for success and 403, NOT_FOUND for 404, ERROR otherwise.
C3_ClassificationTotal ==
  \A w \in Workers :
    resp[w] # NoResponse =>
      /\ status[w] \in {"FOUND", "NOT_FOUND", "ERROR"}
      /\ status[w] = "FOUND" <=>
           (resp[w].kind = "ok" \/ (resp[w].kind = "ClientError" /\ resp[w].code = "403"))
      /\ status[w] = "NOT_FOUND" <=>
           (resp[w].kind = "ClientError" /\ resp[w].code = "404")

\* a worker has just classified a 403 answer
C3_Witness ==
  \E w \in Workers :
    resp[w] = [kind |-> "ClientError", code |-> "403"] /\ status[w] = "FOUND"

(* ---------------------------- C4 -------------------------------------- *)
\* every candidate put has been probed and acknowledged, every thread has
\* left its loop on a sentinel, and main has joined them all
Completed ==
  /\ mpc = "done"
  /\ Outstanding = 0
  /\ \A i \in 1..Len(puts) : puts[i] # None => results[puts[i].id].status # "-"
  /\ \A w \in Threads : wpc[w] = "done"

\* C4: with N >= 1 workers whose calls all return without raising, under
\* fair scheduling, the scan eventually completes: every candidate is
\* processed, every worker terminates and main finishes after joining them
\* (main reaches "done" from q.join() only by q.join() returning).
C4_ScanCompletes == <>Completed

\* a completed scan of two candidates by two workers that went through q.join()
C4_Witness ==
  /\ Completed
  /\ N = 2
  /\ caught = "none"
  /\ Len(CandidatesOf(puts)) = 2

(* ---------------------------- C5 -------------------------------------- *)
\* C5: a failure while one candidate is processed stays with that candidate:
\* it never ends the thread that handles it, so no thread is dead while it
\* holds a candidate it has not acknowledged (which q.join() would wait for).
C5_CandidateFailureStaysLocal ==
  \A w \in Workers : wpc[w] = "crashed" => item[w] = Unset

(* ---------------------------- C6 -------------------------------------- *)
\* C6: with N >= 1 workers main enqueues exactly N sentinels; a worker that has left its loop
\* has popped exactly one; and when main finishes every worker has popped
\* its sentinel and the queue is empty.
C6_OneSentinelPerWorker ==
  N >= 1 =>
    /\ Len(SentinelsOf(puts)) <= N
    /\ mpc \in {"jointhreads", "done"} => Len(SentinelsOf(puts)) = N
    /\ \A w \in Workers : wpc[w] = "done" => item[w] = None
    /\ mpc = "done" => (queue = <<>> /\ \A w \in Threads : wpc[w] = "done")

(* ---------------------------- C7 -------------------------------------- *)
\* a line without its leading and trailing whitespace
Trimmed(s) ==
  LET solid == {i \in 1..Len(s) : s[i] \notin Whitespace}
  IN IF solid = {} THEN <<>>
     ELSE SubSeq(s, CHOOSE i \in solid : \A j \in solid : i <= j,
                    CHOOSE i \in solid : \A j \in solid : i >= j)

\* the trimmed lines that are not empty, in order
ExpectedNames(lines) ==
  SelectSeq([i \in 1..Len(lines) |-> Trimmed(lines[i])], LAMBDA n : n # <<>>)

NamesOf(items) == [i \in 1..Len(items) |-> items[i].name]

\* C7: the candidates put so far are the trimmed, non-empty lines read so
\* far, one per occurrence, in wordlist order; once the wordlist has been
\* read to the end they are exactly those of the whole wordlist.
C7_PushedAreTrimmedNonEmptyLines ==
  /\ NamesOf(CandidatesOf(puts)) = ExpectedNames(SubSeq(wordlist, 1, pos - 1))
  /\ \A i \in 1..Len(puts) : puts[i] # None => puts[i].name = Trimmed(wordlist[puts[i].id])
  /\ (caught = "none" /\ mpc \in {"join", "sentinels", "jointhreads", "done"})
       => NamesOf(CandidatesOf(puts)) = ExpectedNames(wordlist)

\* the wordlist was read to the end: one of its two lines was blank or
\* whitespace-only and skipped, the other was put
C7_Witness ==
  /\ mpc = "join"
  /\ Len(wordlist) = 2
  /\ Len(CandidatesOf(puts)) = 1

(* ---------------------------- C8 -------------------------------------- *)
\* the pushed occurrences classified FOUND
FoundIds == {i \in 1..MaxLines : results[i].status = "FOUND"}

\* the names that were pushed
PushedNames == {puts[i].name : i \in {j \in 1..Len(puts) : puts[j] # None}}

\* positions of the 'Bucket: <name>' lines
LinesFor(name) == {i \in BucketIdx : file[i].text = name}

\* the pushed occurrences of a name, among a set of wordlist lines
Named(ids, name) == {i \in ids : Trimmed(wordlist[i]) = name}

\* C8 as stated: with an output file, once the scan has completed, each name
\* has as many 'Bucket:' lines as pushed occurrences classified FOUND, each
\* followed by one 'Object:' line per listed key, in listing order.
C8_OneRecordPerFound ==
  (output_file /\ mpc = "done") =>
    /\ \A name \in PushedNames :
         Cardinality(LinesFor(name)) = Cardinality(Named(FoundIds, name))
    /\ \A i \in BucketIdx : Block(i) = ObjLines(file[i].src)

\* C8 amended: no occurrence ever gets a second 'Bucket:' line; with an output
\* file, once the scan has completed, each name has one 'Bucket:' line per
\* pushed occurrence classified FOUND whose sink write did not raise, each
\* followed by one 'Object:' line per listed key in listing order (none when
\* listing is disabled); an occurrence whose open or write raised has no
\* line, or one line followed by the first few of its object lines.
C8_OneRecordPerFoundUnlessWriteRaised ==
  /\ \A id \in 1..MaxLines :
       /\ Cardinality({i \in BucketIdx : file[i].src = id}) <= 1
       /\ \A i \in BucketIdx :
            file[i].src = id => (id \in FoundIds /\ file[i].text = Trimmed(wordlist[id]))
  /\ (output_file /\ mpc = "done") =>
       /\ \A name \in PushedNames :
            LET ok  == {id \in Named(FoundIds, name) : ~Raised(id)}
                bad == {id \in Named(FoundIds, name) : Raised(id)}
            IN /\ Cardinality(LinesFor(name)) >= Cardinality(ok)
               /\ Cardinality(LinesFor(name)) <= Cardinality(ok) + Cardinality(bad)
               /\ \A id \in ok : \E i \in LinesFor(name) : file[i].src = id
       /\ \A i \in BucketIdx :
            /\ IsPrefix(Block(i), ObjLines(file[i].src))
            /\ ~Raised(file[i].src) => Block(i) = ObjLines(file[i].src)
            /\ ~should_list => Block(i) = <<>>

\* a completed scan that appended two records, one of them with object lines
C8_Witness ==
  /\ output_file
  /\ mpc = "done"
  /\ Cardinality(BucketIdx) = 2
  /\ \E i \in BucketIdx : Len(Block(i)) = 2

(* ---------------------------- C9 -------------------------------------- *)
\* C9: with --threads 0 main rejects the configuration: it never reads the
\* wordlist, puts no candidate and never waits in q.join().
C9_ZeroThreadsRejected ==
  N = 0 => (mpc \notin {"read", "join"} /\ CandidatesOf(puts) = <<>>)

(* ---------------------------- C10 ------------------------------------- *)
\* C10: when the wordlist cannot be opened nothing is put, probed or written,
\* and when main finishes every one of the N workers has popped a sentinel
\* and terminated.
C10_OpenFailureCleanShutdown ==
  caught = "FileNotFoundError" =>
    /\ CandidatesOf(puts) = <<>>
    /\ file = <<OldLine>>
    /\ \A i \in 1..MaxLines : results[i] = NoResult
    /\ mpc = "done" => \A w \in Threads : (wpc[w] = "done" /\ item[w] = None)

(* ---------------------------- C11 ------------------------------------- *)
\* the worker holds a Found bucket whose listing gave None or no key
NothingListed(w) ==
  /\ status[w] = "FOUND"
  /\ (~found_objects[w].some \/ found_objects[w].keys = <<>>)

\* the lines of the output file written for candidate id
LinesOf(id) == {i \in 1..Len(file) : file[i].src = id}

\* C11: a Found bucket (a 403 head check included) whose listing is denied,
\* fails or returns no key still gets its 'Bucket:' line and no 'Object:'
\* line: the listing step never ends the thread but goes on to the sink
\* block, the sink block writes the bucket line only, and the worker then
\* acknowledges the item and returns to q.get().
C11_ListingFailureBucketLineOnly ==
  /\ [](\A w \in Workers :
         /\ (wpc[w] = "list" /\ resp[w].kind = "ClientError") => status[w] = "FOUND"
         /\ (NothingListed(w) /\ wpc[w] \in {"write", "ack"}) =>
              /\ \A i \in LinesOf(item[w].id) : file[i] = BucketLine(item[w])
              /\ Cardinality(LinesOf(item[w].id)) <= 1
              /\ (wpc[w] = "ack" /\ output_file) => Cardinality(LinesOf(item[w].id)) = 1)
  /\ [][\A w \in Workers :
          /\ (wpc[w] = "list" /\ wpc'[w] # "list") =>
               /\ wpc'[w] = (IF output_file THEN "lock" ELSE "ack")
               /\ item'[w] = item[w]
               /\ unfinished' = unfinished
          /\ (wpc[w] = "ack" /\ wpc'[w] # "ack") =>
               /\ wpc'[w] = "get"
               /\ unfinished' = unfinished - 1]_vars

\* a worker about to acknowledge a Found bucket whose listing returned None:
\* the file ends with that bucket's line and nothing beneath it
C11_Witness ==
  \E w \in Workers :
    /\ wpc[w] = "ack"
    /\ should_list /\ output_file
    /\ status[w] = "FOUND"
    /\ found_objects[w] = NoList
    /\ file[Len(file)] = BucketLine(item[w])

(* ---------------------------- C12 ------------------------------------- *)
\* C12: whatever the size of the bucket, a listing hands the worker at most
\* MaxKeys (10) keys, and no 'Bucket:' line of the output file has more than
\* MaxKeys 'Object:' lines beneath it.
C12_AtMostMaxKeysPerRecord ==
  /\ \A w \in Workers : Len(found_objects[w].keys) <= MaxKeys
  /\ \A id \in 1..MaxLines : Len(results[id].keys) <= MaxKeys
  /\ \A i \in BucketIdx : Len(Block(i)) <= MaxKeys

\* the service holds a bucket of more than MaxKeys objects and a completed
\* record of the file has exactly MaxKeys object lines
C12_Witness ==
  /\ \E n \in sizes : n > MaxKeys
  /\ \E i \in BucketIdx : Len(Block(i)) = MaxKeys /\ ~Writing(file[i].src)

(* ---------------------------- C13 ------------------------------------- *)
\* C13: the sink is touched only for a Found candidate when an output file is
\* configured: a worker is at the lock or inside the sink block only with
\* status FOUND and an output file, every line added to the file belongs to
\* a candidate classified FOUND, and without an output file the file stays
\* as it was and the lock is never held.
C13_SinkOnlyForFoundWithOutput ==
  /\ \A w \in Workers :
       wpc[w] \in {"lock", "write"} => (status[w] = "FOUND" /\ output_file)
  /\ \A i \in 2..Len(file) :
       /\ file[i].src \in 1..MaxLines
       /\ results[file[i].src].status = "FOUND"
  /\ file[1] = OldLine
  /\ ~output_file => (file = <<OldLine>> /\ ~locked)

\* a completed scan with an output file whose two candidates were classified
\* NOT_FOUND and ERROR: the file is as it was
C13_Witness ==
  /\ output_file
  /\ mpc = "done"
  /\ \E i, j \in 1..MaxLines :
       results[i].status = "NOT_FOUND" /\ results[j].status = "ERROR"
  /\ file = <<OldLine>>

(* ---------------------------- C14 ------------------------------------- *)
\* number of lines equal to l among the lines printed for a candidate
CountOf(lines, l) == Cardinality({k \in 1..Len(lines) : lines[k] = l})

\* C14: a candidate classified FOUND has exactly one found-line on the
\* terminal and no error-line, one classified ERROR exactly one error-line
\* and no found-line, and one classified NOT_FOUND (or not probed yet) has
\* no status line at all.
C14_OneStatusLinePerFoundOrError ==
  \A id \in 1..MaxLines :
    LET st == results[id].status
    IN /\ CountOf(terminal[id], "[+] FOUND") = (IF st = "FOUND" THEN 1 ELSE 0)
       /\ CountOf(terminal[id], "[!] ERROR") = (IF st = "ERROR" THEN 1 ELSE 0)
       /\ st \in {"NOT_FOUND", "-"} => terminal[id] = <<>>
       /\ Len(terminal[id]) <= 1

\* a completed scan of a candidate classified FOUND and one classified
\* NOT_FOUND: one found-line for the first, nothing for the second
C14_Witness ==
  /\ mpc = "done"
  /\ \E i, j \in 1..MaxLines :
       /\ results[i].status = "FOUND" /\ terminal[i] = <<"[+] FOUND">>
       /\ results[j].status = "NOT_FOUND" /\ terminal[j] = <<>>

(* ---------------------------- C15 ------------------------------------- *)
\* the thread has entered its loop and taken something from the queue
InLoop(w) == item[w] # Unset

\* C15: a worker that has entered its loop leaves it only by popping a
\* sentinel: a thread that has ended after taking an item ended on q.get()
\* returning None, never on an error raised while it handled a candidate.
C15_LeavesLoopOnlyBySentinel ==
  \A w \in Workers :
    (finished(w) /\ InLoop(w)) => (wpc[w] = "done" /\ item[w] = None)

(* ---------------------------- C16 ------------------------------------- *)
\* the candidates pushed so far, by wordlist line
PushedIds == {puts[i].id : i \in {j \in 1..Len(puts) : puts[j] # None}}

\* the workers holding candidate id, and its positions in the queue
Holders(id) == {w \in Workers : item[w].id = id}
Queued(id) == {k \in 1..Len(queue) : queue[k].id = id}

\* C16: every pushed candidate occurrence is dequeued by exactly one worker
\* and gets exactly one outcome: it is never in two places (the queue, a
\* worker's hands), it has no outcome while it is queued, it has one as soon
\* as it is in nobody's hands, and when main has finished with N >= 1
\* workers no pushed candidate is left without an outcome.
C16_EachCandidateProbedOnce ==
  /\ \A id \in PushedIds :
       /\ Cardinality(Holders(id)) + Cardinality(Queued(id)) <= 1
       /\ Queued(id) # {} => results[id].status = "-"
       /\ (Queued(id) = {} /\ Holders(id) = {}) => results[id].status # "-"
       /\ Len(terminal[id]) <= 1
  /\ (N >= 1 /\ mpc = "done") =>
       \A id \in PushedIds : results[id].status # "-"

(* ---------------------------- C17 ------------------------------------- *)
\* the workers inside the with lock block
InSink == {w \in Workers : wpc[w] = "write"}

\* C17: the lock is held exactly while some worker is inside the sink block:
\* once a write attempt has ended, by the block closing or by open or write
\* raising, the lock is free, so a worker waiting at the lock while nobody is
\* inside the block can take it.
C17_LockReleasedOnEveryExit ==
  /\ locked <=> InSink # {}
  /\ \A w \in Workers : (wpc[w] = "lock" /\ InSink = {}) => lock_free

\* a worker whose write raised has ended, and another worker has taken the
\* lock after it and is writing its own record
C17_Witness ==
  \E w1, w2 \in Workers :
    /\ wpc[w1] = "crashed" /\ InLoop(w1)
    /\ \E i \in BucketIdx : file[i].src = item[w1].id
    /\ wpc[w2] = "write" /\ widx[w2] >= 1

(* ---------------------------- C18 ------------------------------------- *)
\* the output file holds the whole record of candidate id: one 'Bucket:'
\* line followed by all its 'Object:' lines
RecordComplete(id) ==
  /\ Cardinality({i \in BucketIdx : file[i].src = id}) = 1
  /\ \A i \in BucketIdx :
       file[i].src = id =>
         (file[i].text = Trimmed(wordlist[id]) /\ Block(i) = ObjLines(id))

\* candidate id has been acknowledged: probed and in nobody's hands
Acknowledged(id) ==
  /\ results[id].status # "-"
  /\ Holders(id) = {}

\* main is past q.join() having waited in it
PastJoin == caught = "none" /\ mpc \in {"sentinels", "jointhreads", "done"}

\* C18: a worker calls task_done only after the candidate's probe, report,
\* listing and sink write: a worker at q.task_done() with a Found candidate
\* and an output file has its whole record in the file, and so has every
\* acknowledged Found candidate; once q.join() has returned every pushed
\* candidate is acknowledged, the file holds the whole record of every Found
\* one, and no worker is handling a candidate or is at or inside the sink
\* block, so nothing is written after the first sentinel.
C18_AckAfterSinkWrite ==
  /\ \A w \in Workers :
       (wpc[w] = "ack" /\ status[w] = "FOUND" /\ output_file)
         => RecordComplete(item[w].id)
  /\ \A id \in PushedIds :
       (Acknowledged(id) /\ results[id].status = "FOUND" /\ output_file)
         => RecordComplete(id)
  /\ PastJoin =>
       /\ \A id \in PushedIds : Acknowledged(id)
       /\ CandidatesOf(queue) = <<>>
       /\ \A w \in Workers : wpc[w] \notin {"probe", "list", "lock", "write", "ack"}
       /\ output_file => \A id \in FoundIds : RecordComplete(id)

\* q.join() has returned and the first sentinel is in the queue: the file
\* holds the records of two Found candidates, one of them with object lines
C18_Witness ==
  /\ PastJoin
  /\ sent >= 1
  /\ output_file
  /\ Cardinality(FoundIds) = 2
  /\ \E id \in FoundIds : Len(ObjLines(id)) = 2

(* ---------------------------- C19 ------------------------------------- *)
\* no sentinel is ahead of a candidate in a sequence of queue items
SentinelsLast(items) ==
  \A i, j \in 1..Len(items) : (items[i] = None /\ i < j) => items[j] = None

\* C19: on every path of main, the read-error path included, the queue
\* never holds a sentinel ahead of a candidate and no worker has popped a
\* sentinel while a candidate is queued; hence, with N >= 1 workers, when
\* main's final join of the threads has returned every pushed candidate has
\* been dequeued and processed to its acknowledgement.
C19_CandidatesBeforeSentinels ==
  /\ SentinelsLast(queue)
  /\ \A w \in Workers : wpc[w] = "done" => CandidatesOf(queue) = <<>>
  /\ (N >= 1 /\ mpc = "done") =>
       /\ CandidatesOf(queue) = <<>>
       /\ Outstanding = 0

(* ---------------------------- C20 ------------------------------------- *)
\* C20: the output file only grows at its end: every step leaves the lines
\* the file had (what it held before the scan, every record completed or
\* begun so far) as an unchanged prefix of the file, and a step that changes
\* the file adds exactly one line, written by a worker inside the sink block.
C20_SinkAppendOnly ==
  [][/\ IsPrefix(file, file')
     /\ file' # file =>
          /\ Len(file') = Len(file) + 1
          /\ \E w \in Workers :
               wpc[w] = "write" /\ file'[Len(file')].src = item[w].id]_vars

\* a worker has written the first line of a second record behind the old
\* content of the file and the record another candidate completed
C20_Witness ==
  /\ file[1] = OldLine
  /\ Cardinality(BucketIdx) = 2
  /\ \E w \in Workers :
       /\ wpc[w] = "write" /\ widx[w] = 1
       /\ file[Len(file)] = BucketLine(item[w])
       /\ \E i \in BucketIdx : file[i].src # item[w].id /\ Len(Block(i)) = 2

====
